---- MODULE Spec2Model ----
(***************************************************************************)
(* A model of server.js: the in-memory job registry                        *)
(* (processingJobs), the streaming conversion pipeline                     *)
(* (GET /api/process-stream/:jobId), and the tier operations on the two    *)
(* Firestore collections 'flipbooks' (Public) and 'team-member' (Pending): *)
(* update-team-pdf, delete-flipbook, delete-team-flipbook and              *)
(* approve-flipbook.  Every await of a handler is a point where other      *)
(* requests interleave; an action below is one resumption of a handler,    *)
(* from one await to the next, with the outcome of the awaited call.       *)
(***************************************************************************)
EXTENDS Integers, Sequences, FiniteSets, TLC

\* ------------------------------------------------------------------ bounds
MaxJobs == 2            \* uploads that are accepted (jobIds drawn)
MaxBooks == 2           \* pipeline runs that obtain a job (bookIds drawn)
MaxStreams == 2         \* process-stream requests open at a time
MaxPages == 2           \* pages of the largest uploaded document
MaxUpdates == 1         \* update-team-pdf requests that find their record
MaxDeletes == 1         \* delete requests that find their record (either tier)
MaxFaults == 1          \* calls to Cloud Storage, Firestore or pdf.js that fail
MaxLoopPages == 201     \* pages of the largest document whose page loop is run

\* ------------------------------------------------------------ value spaces
Missing == ""                     \* an absent or empty request field (falsy)
Null == <<>>                      \* JavaScript null, where a URL may stand
NullUid == "null"                 \* JavaScript null, where a uid may stand
NoId == 0                         \* req.body.id undefined
LibraryError == "error.message"   \* the message of an error a library threw
PublicCollection == "flipbooks"
PendingCollection == "team-member"
Collections == {PublicCollection, PendingCollection}
ServerTimestamp == "serverTimestamp"   \* the FieldValue sentinel the code writes

JobIds == 1..MaxJobs              \* uuidv4() values handed out as job tokens
BookIds == 1..MaxBooks            \* uuidv4() values handed out as book ids
Streams == 1..MaxStreams
Updates == 1..MaxUpdates
Deletes == 1..MaxDeletes

\* Uploaded files (req.file): originalname and the page count pdf.js finds in
\* the buffer.  One document has no page.
Files ==
    { [originalname |-> "a.pdf", numPages |-> MaxPages],
      [originalname |-> "b.pdf", numPages |-> 0] }
NoFile == [originalname |-> Missing, numPages |-> 0]   \* req.file undefined
Uids == {"u1", "u2"}

\* Bodies of the upload requests: the well-formed ones, with and without a
\* uid, and one body for each field the handlers test for.
ValidBodies ==
    { [file |-> f, mainCategory |-> "Sports", subcategory |-> "Tennis", uid |-> u] :
        f \in Files, u \in {"u1", Missing} }
SomeBody == [file |-> [originalname |-> "b.pdf", numPages |-> 0],
             mainCategory |-> "Sports", subcategory |-> "Tennis", uid |-> "u1"]
InvalidBodies ==
    { [SomeBody EXCEPT !.file = NoFile],
      [SomeBody EXCEPT !.mainCategory = Missing],
      [SomeBody EXCEPT !.subcategory = Missing] }
UploadBodies == ValidBodies \cup InvalidBodies

\* Bodies of the update requests.
UpdateBodies ==
    { [uid |-> u, newFile |-> f] : u \in Uids, f \in Files }
      \cup { [uid |-> Missing, newFile |-> [originalname |-> "b.pdf", numPages |-> 0]],
             [uid |-> "u1", newFile |-> NoFile] }

\* ------------------------------------------------------------- blob naming
\* a variant of the name of the original: `source-pdfs/${file.originalname}`
PdfPathFlat(bookId, name) ==
    [dir |-> "source-pdfs", book |-> 0, file |-> name, page |-> 0]
\* `source-pdfs/${bookId}/${file.originalname}`
PdfPath(bookId, name) ==
    [dir |-> "source-pdfs", book |-> bookId, file |-> name, page |-> 0]
\* `processed-images/${bookId}/`
ImagesPath(bookId) == [dir |-> "processed-images", book |-> bookId]
\* `${processedImagesPath}page-${i}.jpg`
PagePath(prefix, i) ==
    [dir |-> prefix.dir, book |-> prefix.book, file |-> "page-.jpg", page |-> i]
\* a variant of the prefix test: the folder alone is compared, not the bookId
HasPrefixAnyBook(path, prefix) == path.dir = prefix.dir
\* a blob name starts with the prefix string
HasPrefix(path, prefix) == path.dir = prefix.dir /\ path.book = prefix.book
\* bucket.file(destination).getSignedUrl(...): the URL names the blob
SignedUrl(path) == <<"signed", path>>

\* ---------------------------------------------------- progress arithmetic
\* Math.round((i / numPages) * 100) in IEEE doubles.  The exact quotient
\* 100*i/numPages rounded half up is (200*i + numPages) \div (2*numPages);
\* on these (i, numPages) the double product falls just below the tie
\* k + 0.5 and Math.round gives k (e.g. (29/200)*100 = 14.499999999999998).
DoubleBelowTie ==
    { <<23, 40>>, <<46, 80>>, <<69, 120>>, <<92, 160>>, <<29, 200>>,
      <<57, 200>>, <<113, 200>>, <<115, 200>>, <<138, 240>>, <<161, 280>>,
      <<184, 320>>, <<207, 360>>, <<58, 400>>, <<114, 400>>, <<226, 400>>,
      <<230, 400>> }
\* variants of the arithmetic: the value in tenths of a percent, and the
\* quotient rounded down
ProgressPerMille(i, numPages) == (2000 * i + numPages) \div (2 * numPages)
ProgressFloor(i, numPages) == (100 * i) \div numPages
ProgressValue(i, numPages) ==
    LET halfUp == (200 * i + numPages) \div (2 * numPages)
    IN  IF <<i, numPages>> \in DoubleBelowTie THEN halfUp - 1 ELSE halfUp

\* ------------------------------------------------------------------- state
VARIABLES
    processingJobs,   \* const processingJobs = {}: jobId -> job
    nextJobId,        \* jobIds uuidv4() has produced so far, plus one
    nextBookId,       \* bookIds uuidv4() has produced so far, plus one
    submitted,        \* jobId -> the upload request that was answered with it
    db,               \* Firestore: collection -> (bookId -> document)
    bucket,           \* Cloud Storage bucket: the set of blob names stored
    stream,           \* open process-stream requests: locals, events written
    upd,              \* open update-team-pdf requests: their locals
    del,              \* open delete requests: their locals
    res,              \* the response the latest step completed, if it did
    faults            \* library calls that have failed so far

vars == <<processingJobs, nextJobId, nextBookId, submitted, db, bucket, stream,
          upd, del, res, faults>>

\* res.status(status).json({ message }), res.json({ jobId }), or the frames
\* of an event stream up to res.end(); id is the jobId or the book id the
\* request named (the jobId issued, for an accepted upload)
NoRes == [handler |-> "none", id |-> 0, status |-> 0, message |-> "",
          events |-> <<>>]
Res(handler, id, status, message) ==
    [handler |-> handler, id |-> id, status |-> status, message |-> message,
     events |-> <<>>]
StreamRes(jobId, events) ==
    [handler |-> "process-stream", id |-> jobId, status |-> 200, message |-> "",
     events |-> events]

NoJob == [file |-> NoFile, targetCollection |-> "none", uid |-> NullUid,
          mainCategory |-> Missing, subcategory |-> Missing]
IdleStream ==
    [pc |-> "idle", jobId |-> 0, job |-> NoJob, bookId |-> 0, numPages |-> 0,
     i |-> 0, uploadedUrls |-> <<>>, events |-> <<>>]
IdleUpdate ==
    [pc |-> "idle", bookId |-> 0, newFile |-> NoFile, oldData |-> <<>>,
     numPages |-> 0, i |-> 0, uploadedUrls |-> <<>>]
IdleDelete ==
    [pc |-> "idle", collection |-> "none", bookId |-> 0, data |-> <<>>,
     caught |-> FALSE]

Init ==
    /\ processingJobs = <<>>
    /\ nextJobId = 1
    /\ nextBookId = 1
    /\ submitted = <<>>
    /\ db = [c \in Collections |-> <<>>]
    /\ bucket = {}
    /\ stream = [s \in Streams |-> IdleStream]
    /\ upd = [u \in Updates |-> IdleUpdate]
    /\ del = [d \in Deletes |-> IdleDelete]
    /\ res = NoRes
    /\ faults = 0

\* f with key k set to v (obj[k] = v), and with key k removed (delete obj[k])
Put(f, k, v) == [x \in DOMAIN f \cup {k} |-> IF x = k THEN v ELSE f[x]]
Remove(f, k) == [x \in DOMAIN f \ {k} |-> f[x]]

\* An awaited call of Cloud Storage, Firestore or pdf.js rejects (failed) or
\* resolves; any of them may reject.
Call(failed) ==
    /\ failed => faults < MaxFaults
    /\ faults' = IF failed THEN faults + 1 ELSE faults

\* The event loop runs one callback to its end before the next: a request or
\* a continuation runs once the response of the turn before has gone out.
Ready == res = NoRes
\* res.json(...) / res.end() of the turn that just ran: the response goes out
ResponseSent ==
    /\ res # NoRes
    /\ res' = NoRes
    /\ UNCHANGED <<processingJobs, nextJobId, nextBookId, submitted, db, bucket,
                   stream, upd, del, faults>>

\* A request that goes on to await takes the first slot that holds no open
\* request.
FirstIdle(slots, k) ==
    /\ slots[k].pc = "idle"
    /\ \A j \in 1..(k - 1) : slots[j].pc # "idle"

\* ------------------------------------------------------------ job registry
\* processingJobs[jobId] = { file, targetCollection, uid, mainCategory,
\* subcategory }
Job(body, targetCollection, uid) ==
    [file |-> body.file, targetCollection |-> targetCollection, uid |-> uid,
     mainCategory |-> body.mainCategory, subcategory |-> body.subcategory]

\* a variant of createUploadJob that tests the file only
CreateUploadJobFileOnly(body, targetCollection, uid) ==
    IF body.file = [originalname |-> "", numPages |-> 0]
    THEN /\ res' = [handler |-> "upload", id |-> 0, status |-> 400,
                    message |-> "Missing file.", events |-> <<>>]
         /\ UNCHANGED <<processingJobs, nextJobId>>
    ELSE /\ nextJobId <= MaxJobs
         /\ nextJobId' = nextJobId + 1
         /\ processingJobs' =
               [x \in DOMAIN processingJobs \cup {nextJobId} |->
                   IF x = nextJobId
                   THEN [file |-> body.file, targetCollection |-> targetCollection,
                         uid |-> uid, mainCategory |-> body.mainCategory,
                         subcategory |-> body.subcategory]
                   ELSE processingJobs[x]]
         /\ res' = [handler |-> "upload", id |-> nextJobId, status |-> 200,
                    message |-> "jobId", events |-> <<>>]
\* createUploadJob(req, res, targetCollection, uid)
CreateUploadJob(body, targetCollection, uid) ==
    IF body.file = NoFile
    THEN /\ res' = Res("upload", 0, 400, "Missing file.")
         /\ UNCHANGED <<processingJobs, nextJobId>>
    ELSE IF body.mainCategory = Missing \/ body.subcategory = Missing
    THEN /\ res' = Res("upload", 0, 400, "Missing main category or subcategory.")
         /\ UNCHANGED <<processingJobs, nextJobId>>
    ELSE LET jobId == nextJobId
             job == Job(body, targetCollection, uid)
         IN  /\ nextJobId <= MaxJobs
             /\ nextJobId' = nextJobId + 1
             /\ processingJobs' = Put(processingJobs, jobId, job)
             /\ res' = Res("upload", jobId, 200, "jobId")

\* the request is on record under the jobId it was answered with, if it was
Submitted(route, body) ==
    submitted' = IF nextJobId' = nextJobId THEN submitted
                 ELSE Put(submitted, nextJobId, [route |-> route, body |-> body])

\* POST /api/upload-pdf
UploadPdfOf(body) ==
    /\ Ready
    /\ CreateUploadJob(body, PublicCollection, NullUid)
    /\ Submitted("upload-pdf", body)
    /\ UNCHANGED <<nextBookId, db, bucket, stream, upd, del, faults>>
UploadPdf == \E body \in UploadBodies : UploadPdfOf(body)

\* POST /api/upload-team-pdf
UploadTeamPdfOf(body) ==
    /\ Ready
    /\ IF body.uid = Missing
       THEN /\ res' = Res("upload", 0, 400,
                          "User ID (uid) is required for this operation.")
            /\ UNCHANGED <<processingJobs, nextJobId>>
       ELSE CreateUploadJob(body, PendingCollection, body.uid)
    /\ Submitted("upload-team-pdf", body)
    /\ UNCHANGED <<nextBookId, db, bucket, stream, upd, del, faults>>
UploadTeamPdf == \E body \in UploadBodies : UploadTeamPdfOf(body)

\* ---------------------------------------------------- conversion pipeline
\* sendEvent(data): res.write of one frame
LogEvent(message) == [type |-> "log", message |-> message, value |-> 0]
ProgressEvent(value) == [type |-> "progress", message |-> "", value |-> value]
DoneEvent == [type |-> "done", message |-> "Flipbook processed successfully!",
              value |-> 0]
\* a variant of the error frame: written as a log line
ErrorAsLog(message) == [type |-> "log", message |-> message, value |-> 0]
ErrorEvent(message) == [type |-> "error", message |-> message, value |-> 0]

\* a variant of the lookup: the entry registered first, whatever the token
LookupFirst(jobs, jobId) ==
    IF jobId \in DOMAIN jobs THEN jobs[CHOOSE j \in DOMAIN jobs :
                                         \A k \in DOMAIN jobs : j <= k]
    ELSE [file |-> [originalname |-> "", numPages |-> 0], targetCollection |-> "none",
          uid |-> "null", mainCategory |-> "", subcategory |-> ""]
\* a variant of the lookup: for a token that is not registered, the entry
\* registered first, if there is one
LookupAny(jobs, jobId) ==
    IF jobId \in DOMAIN jobs THEN jobs[jobId]
    ELSE IF DOMAIN jobs # {}
    THEN jobs[CHOOSE j \in DOMAIN jobs : \A k \in DOMAIN jobs : j <= k]
    ELSE [file |-> [originalname |-> "", numPages |-> 0], targetCollection |-> "none",
          uid |-> "null", mainCategory |-> "", subcategory |-> ""]
\* const job = processingJobs[jobId]: the entry, or undefined
Lookup(jobs, jobId) == IF jobId \in DOMAIN jobs THEN jobs[jobId] ELSE NoJob

\* GET /api/process-stream/:jobId up to the first await: the registry lookup
ProcessStreamOpen(jobId) ==
    /\ LET job == Lookup(processingJobs, jobId)
       IN  IF job = NoJob
           THEN /\ res' = StreamRes(jobId, <<ErrorEvent("Job not found or has expired.")>>)
                /\ UNCHANGED <<stream, nextBookId>>
           ELSE \E s \in Streams :
                  /\ FirstIdle(stream, s)
                  /\ nextBookId <= MaxBooks
                  /\ stream' = [stream EXCEPT ![s] =
                         [@ EXCEPT !.pc = "saveOriginal", !.jobId = jobId,
                            !.job = job, !.bookId = nextBookId,
                            !.events = <<LogEvent("Uploading original PDF to storage...")>>]]
                  /\ nextBookId' = nextBookId + 1
                  /\ res' = NoRes
    /\ UNCHANGED <<processingJobs, nextJobId, submitted, db, bucket, upd, del,
                   faults>>

\* a variant of the end of a run: the channel is closed, the entry is left
StreamEndsKeepsJob(s, events) ==
    /\ processingJobs' = processingJobs
    /\ res' = [handler |-> "process-stream", id |-> stream[s].jobId, status |-> 200,
               message |-> "", events |-> events]
    /\ stream' = [stream EXCEPT ![s].pc = "idle"]
\* finally { delete processingJobs[jobId]; res.end() }
StreamEnds(s, events) ==
    /\ processingJobs' = Remove(processingJobs, stream[s].jobId)
    /\ res' = StreamRes(stream[s].jobId, events)
    /\ stream' = [stream EXCEPT ![s] = IdleStream]
\* a variant of the catch block: the step that failed is tried again
StreamFailedRetries(s, events) ==
    /\ stream' = stream
    /\ res' = NoRes
    /\ UNCHANGED processingJobs
\* catch (error) { sendEvent({ type: 'error', ... }) } finally {...}
StreamFailed(s, events) == StreamEnds(s, Append(events, ErrorEvent(LibraryError)))
\* the handler awaits its next call
StreamGoesOn(s, r) ==
    /\ stream' = [stream EXCEPT ![s] = r]
    /\ res' = NoRes
    /\ UNCHANGED processingJobs

\* the logs written once the page loop has ended
AfterLoopLogs(targetCollection) ==
    <<LogEvent("All pages converted and uploaded."),
      LogEvent(IF targetCollection = PublicCollection
               THEN "Saving flipbook metadata to 'flipbooks'..."
               ELSE "Saving flipbook metadata to 'team-member'...")>>

\* await bucket.file(pdfPathInStorage).save(...); await getDocument(data).promise
ProcessStreamSaveOriginal(s) ==
    LET r == stream[s]
        pdfPathInStorage == PdfPath(r.bookId, r.job.file.originalname)
        numPages == r.job.file.numPages
        saved == r.events \o <<LogEvent("Original PDF uploaded."),
                               LogEvent("Converting PDF to images...")>>
    IN  /\ r.pc = "saveOriginal"
        /\ \E outcome \in {"saveFails", "decodeFails", "ok"} :
             /\ Call(outcome # "ok")
             /\ bucket' = IF outcome = "saveFails" THEN bucket
                          ELSE bucket \cup {pdfPathInStorage}
             /\ IF outcome = "saveFails" THEN StreamFailed(s, r.events)
                ELSE IF outcome = "decodeFails" THEN StreamFailed(s, saved)
                ELSE StreamGoesOn(s,
                       [r EXCEPT !.pc = IF 1 <= numPages THEN "page" ELSE "persist",
                                 !.numPages = numPages, !.i = 1,
                                 !.events = saved \o (IF 1 <= numPages THEN <<>>
                                                      ELSE AfterLoopLogs(r.job.targetCollection))])
        /\ UNCHANGED <<nextJobId, nextBookId, submitted, db, upd, del>>

\* a variant of the page loop: the progress frame is written and the loop
\* goes on without waiting for the page image to be saved
ProcessStreamPageUnsaved(s) ==
    LET r == stream[s]
        destination == PagePath(ImagesPath(r.bookId), r.i)
    IN  /\ r.pc = "page"
        /\ Call(FALSE)
        /\ bucket' = bucket
        /\ StreamGoesOn(s,
              [r EXCEPT !.pc = IF r.i + 1 <= r.numPages THEN "page" ELSE "persist",
                        !.i = r.i + 1,
                        !.uploadedUrls = Append(@, SignedUrl(destination)),
                        !.events = Append(@, ProgressEvent(ProgressValue(r.i, r.numPages)))
                                     \o (IF r.i + 1 <= r.numPages THEN <<>>
                                         ELSE AfterLoopLogs(r.job.targetCollection))])
        /\ UNCHANGED <<nextJobId, nextBookId, submitted, db, upd, del>>
\* one turn of the page loop: getPage, render, save, getSignedUrl, sendProgress
ProcessStreamPage(s) ==
    LET r == stream[s]
        destination == PagePath(ImagesPath(r.bookId), r.i)
    IN  /\ r.pc = "page"
        /\ \E outcome \in {"renderFails", "saveFails", "urlFails", "ok"} :
             /\ Call(outcome # "ok")
             /\ bucket' = IF outcome \in {"renderFails", "saveFails"} THEN bucket
                          ELSE bucket \cup {destination}
             /\ IF outcome # "ok" THEN StreamFailed(s, r.events)
                ELSE StreamGoesOn(s,
                       [r EXCEPT !.pc = IF r.i + 1 <= r.numPages THEN "page" ELSE "persist",
                                 !.i = r.i + 1,
                                 !.uploadedUrls = Append(@, SignedUrl(destination)),
                                 !.events = Append(@, ProgressEvent(ProgressValue(r.i, r.numPages)))
                                              \o (IF r.i + 1 <= r.numPages THEN <<>>
                                                  ELSE AfterLoopLogs(r.job.targetCollection))])
        /\ UNCHANGED <<nextJobId, nextBookId, submitted, db, upd, del>>

\* a variant of the thumbnail choice: the last page
ThumbnailLast(uploadedUrls) ==
    IF Len(uploadedUrls) > 0 THEN uploadedUrls[Len(uploadedUrls)] ELSE <<>>
\* uploadedUrls.length > 0 ? uploadedUrls[0] : null
Thumbnail(uploadedUrls) == IF Len(uploadedUrls) > 0 THEN uploadedUrls[1] ELSE Null

\* a variant of the record: the uid field is written whatever the uid
BookDataWithUid(job, bookId, uploadedUrls) ==
    [mainCategory |-> job.mainCategory, subcategory |-> job.subcategory,
     pdfName |-> job.file.originalname,
     pdfPathInStorage |-> PdfPath(bookId, job.file.originalname),
     imageFolderPath |-> ImagesPath(bookId),
     pageImageUrls |-> uploadedUrls,
     thumbnailUrl |-> IF Len(uploadedUrls) > 0 THEN uploadedUrls[1] ELSE <<>>,
     timestamp |-> ServerTimestamp,
     uid |-> job.uid]
\* const bookData = {...}; if (uid) { bookData.uid = uid; }
BookData(job, bookId, uploadedUrls) ==
    LET bookData ==
          [mainCategory |-> job.mainCategory, subcategory |-> job.subcategory,
           pdfName |-> job.file.originalname,
           pdfPathInStorage |-> PdfPath(bookId, job.file.originalname),
           imageFolderPath |-> ImagesPath(bookId),
           pageImageUrls |-> uploadedUrls,
           thumbnailUrl |-> Thumbnail(uploadedUrls),
           timestamp |-> ServerTimestamp]
    IN  IF job.uid # NullUid /\ job.uid # Missing
        THEN [f \in DOMAIN bookData \cup {"uid"} |->
                 IF f = "uid" THEN job.uid ELSE bookData[f]]
        ELSE bookData

\* await db.collection(targetCollection).doc(bookId).set(bookData); 'done'
ProcessStreamPersist(s) ==
    LET r == stream[s]
    IN  /\ r.pc = "persist"
        /\ \E outcome \in {"setFails", "ok"} :
             /\ Call(outcome # "ok")
             /\ IF outcome = "setFails"
                THEN /\ StreamFailed(s, r.events)
                     /\ UNCHANGED db
                ELSE /\ db' = [db EXCEPT ![r.job.targetCollection] =
                                  Put(@, r.bookId, BookData(r.job, r.bookId, r.uploadedUrls))]
                     /\ StreamEnds(s, r.events \o <<LogEvent("Metadata saved."), DoneEvent>>)
        /\ UNCHANGED <<nextJobId, nextBookId, submitted, bucket, upd, del>>

ProcessStream ==
    /\ Ready
    /\ \/ \E jobId \in JobIds : ProcessStreamOpen(jobId)
       \/ \E s \in Streams : ProcessStreamSaveOriginal(s)
       \/ \E s \in Streams : ProcessStreamPage(s)
       \/ \E s \in Streams : ProcessStreamPersist(s)

\* ------------------------------------------------------------- blob cleanup
\* the blobs bucket.deleteFiles({ prefix }) finds
UnderPrefix(blobs, prefix) == {p \in blobs : HasPrefix(p, prefix)}
\* variants of the cleanup: one that deletes the page images of every book,
\* one that deletes the first page image only
DeleteFilesEveryBook(blobs, prefix, ok) ==
    {blobs \ {p \in blobs : p.dir = prefix.dir}}
DeleteFilesFirstPage(blobs, prefix, ok) ==
    {blobs \ {p \in blobs : p.dir = prefix.dir /\ p.book = prefix.book /\ p.page = 1}}
\* await bucket.deleteFiles({ prefix }): every blob under the prefix is
\* deleted; when the call rejects, some of them may have been deleted already
DeleteFilesResults(blobs, prefix, ok) ==
    IF ok THEN {blobs \ UnderPrefix(blobs, prefix)}
    ELSE {blobs \ gone : gone \in SUBSET UnderPrefix(blobs, prefix)}

\* a variant of the answer to a missing record: the request is answered 200
NotFoundTolerated(handler, bookId, message) ==
    [handler |-> handler, id |-> bookId, status |-> 200, message |-> message,
     events |-> <<>>]
\* if (!doc.exists) return res.status(404).json({ message })
NotFound(handler, bookId, message) == Res(handler, bookId, 404, message)

\* ---------------------------------------------------------- update-team-pdf
\* res.status(status).json({ message }): the request is over
UpdateResponds(u, status, message) ==
    /\ res' = Res("update-team-pdf", upd[u].bookId, status, message)
    /\ upd' = [upd EXCEPT ![u] = [IdleUpdate EXCEPT !.pc = "done",
                                                     !.bookId = upd[u].bookId]]
\* a variant of the catch block: the request is answered 200
UpdateFailedAnswersOk(u) == UpdateResponds(u, 200, "Flipbook updated successfully!")
\* catch (error) { res.status(500)... }
UpdateFailed(u) == UpdateResponds(u, 500, "Server error during update process.")
\* the handler awaits its next call
UpdateGoesOn(u, r) ==
    /\ upd' = [upd EXCEPT ![u] = r]
    /\ res' = NoRes

\* a variant of the start of a replace: the record is found only for the uid
\* it carries
UpdateTeamPdfStartOwnerOnly(bookId, body) ==
    /\ LET answer(status, message) ==
              /\ res' = Res("update-team-pdf", bookId, status, message)
              /\ UNCHANGED upd
       IN  IF body.uid = Missing \/ body.newFile = NoFile
           THEN /\ answer(400, "Missing book ID, user ID, or new file for update.")
                /\ UNCHANGED faults
           ELSE \E outcome \in {"getFails", "ok"} :
                  /\ Call(outcome # "ok")
                  /\ IF outcome = "getFails"
                     THEN answer(500, "Server error during update process.")
                     ELSE IF \/ bookId \notin DOMAIN db[PendingCollection]
                             \/ db[PendingCollection][bookId].uid # body.uid
                     THEN answer(404, "Flipbook to update not found.")
                     ELSE \E u \in Updates :
                            /\ FirstIdle(upd, u)
                            /\ UpdateGoesOn(u,
                                 [upd[u] EXCEPT !.pc = "deleteFiles", !.bookId = bookId,
                                                !.newFile = body.newFile,
                                                !.oldData = db[PendingCollection][bookId]])
    /\ UNCHANGED <<processingJobs, nextJobId, nextBookId, submitted, db, bucket,
                   stream, del>>

\* POST /api/update-team-pdf/:bookId up to and including await docRef.get()
UpdateTeamPdfStart(bookId, body) ==
    /\ LET answer(status, message) ==
              /\ res' = Res("update-team-pdf", bookId, status, message)
              /\ UNCHANGED upd
       IN  IF body.uid = Missing \/ body.newFile = NoFile
           THEN /\ answer(400, "Missing book ID, user ID, or new file for update.")
                /\ UNCHANGED faults
           ELSE \E outcome \in {"getFails", "ok"} :
                  /\ Call(outcome # "ok")
                  /\ IF outcome = "getFails"
                     THEN answer(500, "Server error during update process.")
                     ELSE IF bookId \notin DOMAIN db[PendingCollection]
                     THEN /\ res' = NotFound("update-team-pdf", bookId,
                                              "Flipbook to update not found.")
                          /\ UNCHANGED upd
                     ELSE \E u \in Updates :
                            /\ FirstIdle(upd, u)
                            /\ UpdateGoesOn(u,
                                 [upd[u] EXCEPT !.pc = "deleteFiles", !.bookId = bookId,
                                                !.newFile = body.newFile,
                                                !.oldData = db[PendingCollection][bookId]])
    /\ UNCHANGED <<processingJobs, nextJobId, nextBookId, submitted, db, bucket,
                   stream, del>>

\* if (oldData.imageFolderPath) await bucket.deleteFiles({ prefix })
UpdateTeamPdfDeleteFiles(u) ==
    LET r == upd[u]
    IN  /\ r.pc = "deleteFiles"
        /\ \E ok \in BOOLEAN :
             /\ Call(~ok)
             /\ bucket' \in DeleteFilesResults(bucket, r.oldData.imageFolderPath, ok)
             /\ IF ok THEN UpdateGoesOn(u, [r EXCEPT !.pc = "deleteOriginal"])
                ELSE UpdateFailed(u)
        /\ UNCHANGED <<processingJobs, nextJobId, nextBookId, submitted, db, stream,
                       del>>

\* await bucket.file(path).delete(): rejects when the blob is absent
DeleteBlobCall(path, deleted) ==
    /\ deleted => path \in bucket
    /\ Call(~deleted /\ path \in bucket)
    /\ bucket' = IF deleted THEN bucket \ {path} ELSE bucket

\* if (oldData.pdfPathInStorage) await bucket.file(...).delete().catch(log)
UpdateTeamPdfDeleteOriginal(u) ==
    LET r == upd[u]
    IN  /\ r.pc = "deleteOriginal"
        /\ \E deleted \in BOOLEAN : DeleteBlobCall(r.oldData.pdfPathInStorage, deleted)
        /\ UpdateGoesOn(u, [r EXCEPT !.pc = "saveOriginal"])
        /\ UNCHANGED <<processingJobs, nextJobId, nextBookId, submitted, db, stream,
                       del>>

\* await bucket.file(pdfPathInStorage).save(newFile.buffer, ...);
\* await getDocument(data).promise
UpdateTeamPdfSaveOriginal(u) ==
    LET r == upd[u]
        pdfPathInStorage == PdfPath(r.bookId, r.newFile.originalname)
        numPages == r.newFile.numPages
    IN  /\ r.pc = "saveOriginal"
        /\ \E outcome \in {"saveFails", "decodeFails", "ok"} :
             /\ Call(outcome # "ok")
             /\ bucket' = IF outcome = "saveFails" THEN bucket
                          ELSE bucket \cup {pdfPathInStorage}
             /\ IF outcome # "ok" THEN UpdateFailed(u)
                ELSE UpdateGoesOn(u,
                       [r EXCEPT !.pc = IF 1 <= numPages THEN "page" ELSE "update",
                                 !.numPages = numPages, !.i = 1])
        /\ UNCHANGED <<processingJobs, nextJobId, nextBookId, submitted, db, stream,
                       del>>

\* one turn of the page loop: getPage, render, save, getSignedUrl
UpdateTeamPdfPage(u) ==
    LET r == upd[u]
        destination == PagePath(ImagesPath(r.bookId), r.i)
    IN  /\ r.pc = "page"
        /\ \E outcome \in {"renderFails", "saveFails", "urlFails", "ok"} :
             /\ Call(outcome # "ok")
             /\ bucket' = IF outcome \in {"renderFails", "saveFails"} THEN bucket
                          ELSE bucket \cup {destination}
             /\ IF outcome # "ok" THEN UpdateFailed(u)
                ELSE UpdateGoesOn(u,
                       [r EXCEPT !.pc = IF r.i + 1 <= r.numPages THEN "page" ELSE "update",
                                 !.i = r.i + 1,
                                 !.uploadedUrls = Append(@, SignedUrl(destination))])
        /\ UNCHANGED <<processingJobs, nextJobId, nextBookId, submitted, db, stream,
                       del>>

\* const bookUpdateData = {...}
BookUpdateData(bookId, newFile, uploadedUrls) ==
    [pdfName |-> newFile.originalname,
     pdfPathInStorage |-> PdfPath(bookId, newFile.originalname),
     imageFolderPath |-> ImagesPath(bookId),
     pageImageUrls |-> uploadedUrls,
     thumbnailUrl |-> Thumbnail(uploadedUrls),
     timestamp |-> ServerTimestamp]
\* a variant of the write: the document is replaced wholesale (set)
MergeReplaces(doc, data) == data
\* DocumentReference.update(data): the fields of data replace the document's
Merge(doc, data) ==
    [f \in DOMAIN doc \cup DOMAIN data |-> IF f \in DOMAIN data THEN data[f] ELSE doc[f]]

\* await docRef.update(bookUpdateData): rejects when the document is gone
UpdateTeamPdfUpdate(u) ==
    LET r == upd[u]
        gone == r.bookId \notin DOMAIN db[PendingCollection]
    IN  /\ r.pc = "update"
        /\ \E outcome \in {"updateFails", "ok"} :
             /\ Call(outcome # "ok")
             /\ IF outcome = "updateFails" \/ gone
                THEN /\ UpdateFailed(u)
                     /\ UNCHANGED db
                ELSE /\ db' = [db EXCEPT ![PendingCollection][r.bookId] =
                                  Merge(@, BookUpdateData(r.bookId, r.newFile, r.uploadedUrls))]
                     /\ UpdateResponds(u, 200, "Flipbook updated successfully!")
        /\ UNCHANGED <<processingJobs, nextJobId, nextBookId, submitted, bucket,
                       stream, del>>

UpdateTeamPdf ==
    /\ Ready
    /\ \/ \E bookId \in BookIds, body \in UpdateBodies : UpdateTeamPdfStart(bookId, body)
       \/ \E u \in Updates : UpdateTeamPdfDeleteFiles(u)
       \/ \E u \in Updates : UpdateTeamPdfDeleteOriginal(u)
       \/ \E u \in Updates : UpdateTeamPdfSaveOriginal(u)
       \/ \E u \in Updates : UpdateTeamPdfPage(u)
       \/ \E u \in Updates : UpdateTeamPdfUpdate(u)

\* ------------------------------------- delete-flipbook, delete-team-flipbook
DeleteHandler(collection) ==
    IF collection = PublicCollection THEN "delete-flipbook" ELSE "delete-team-flipbook"
NotFoundMessage(collection) ==
    IF collection = PublicCollection THEN "Flipbook not found."
    ELSE "Pending flipbook not found."
DeletedMessage(collection) ==
    IF collection = PublicCollection THEN "Public flipbook deleted successfully."
    ELSE "Pending flipbook deleted successfully."
DeleteErrorMessage(collection) ==
    IF collection = PublicCollection THEN "Server error while deleting flipbook."
    ELSE "Server error while deleting pending flipbook."

\* res.status(status).json({ message }): the request is over
DeleteResponds(d, status, message) ==
    /\ res' = Res(DeleteHandler(del[d].collection), del[d].bookId, status, message)
    /\ del' = [del EXCEPT ![d] = [IdleDelete EXCEPT !.pc = "done",
                                                     !.collection = del[d].collection,
                                                     !.bookId = del[d].bookId,
                                                     !.caught = del[d].caught]]
\* catch (error) { res.status(500)... }
DeleteFailed(d) == DeleteResponds(d, 500, DeleteErrorMessage(del[d].collection))
\* the handler awaits its next call
DeleteGoesOn(d, r) ==
    /\ del' = [del EXCEPT ![d] = r]
    /\ res' = NoRes

\* DELETE /api/delete-flipbook ('flipbooks') and /api/delete-team-flipbook
\* ('team-member') up to and including await docRef.get()
DeleteStart(collection, bookId) ==
    /\ LET answer(status, message) ==
              /\ res' = Res(DeleteHandler(collection), bookId, status, message)
              /\ UNCHANGED del
       IN  IF bookId = NoId
           THEN /\ answer(400, "Flipbook ID is required.")
                /\ UNCHANGED faults
           ELSE \E outcome \in {"getFails", "ok"} :
                  /\ Call(outcome # "ok")
                  /\ IF outcome = "getFails"
                     THEN answer(500, DeleteErrorMessage(collection))
                     ELSE IF bookId \notin DOMAIN db[collection]
                     THEN /\ res' = NotFound(DeleteHandler(collection), bookId,
                                              NotFoundMessage(collection))
                          /\ UNCHANGED del
                     ELSE \E d \in Deletes :
                            /\ FirstIdle(del, d)
                            /\ DeleteGoesOn(d,
                                 [del[d] EXCEPT !.pc = "deleteFiles",
                                                !.collection = collection,
                                                !.bookId = bookId,
                                                !.data = db[collection][bookId]])
    /\ UNCHANGED <<processingJobs, nextJobId, nextBookId, submitted, db, bucket,
                   stream, upd>>

\* if (data.imageFolderPath) await bucket.deleteFiles({ prefix })
DeleteDeleteFiles(d) ==
    LET r == del[d]
    IN  /\ r.pc = "deleteFiles"
        /\ \E ok \in BOOLEAN :
             /\ Call(~ok)
             /\ bucket' \in DeleteFilesResults(bucket, r.data.imageFolderPath, ok)
             /\ IF ok THEN DeleteGoesOn(d, [r EXCEPT !.pc = "deleteOriginal"])
                ELSE DeleteFailed(d)
        /\ UNCHANGED <<processingJobs, nextJobId, nextBookId, submitted, db, stream,
                       upd>>

\* if (data.pdfPathInStorage) await bucket.file(...).delete().catch(() => {})
DeleteDeleteOriginal(d) ==
    LET r == del[d]
    IN  /\ r.pc = "deleteOriginal"
        /\ \E deleted \in BOOLEAN :
             /\ DeleteBlobCall(r.data.pdfPathInStorage, deleted)
             /\ DeleteGoesOn(d, [r EXCEPT !.pc = "deleteRecord", !.caught = ~deleted])
        /\ UNCHANGED <<processingJobs, nextJobId, nextBookId, submitted, db, stream,
                       upd>>

\* await docRef.delete(); res.status(200)
DeleteDeleteRecord(d) ==
    LET r == del[d]
    IN  /\ r.pc = "deleteRecord"
        /\ \E outcome \in {"deleteFails", "ok"} :
             /\ Call(outcome # "ok")
             /\ IF outcome = "deleteFails"
                THEN /\ DeleteFailed(d)
                     /\ UNCHANGED db
                ELSE /\ db' = [db EXCEPT ![r.collection] = Remove(@, r.bookId)]
                     /\ DeleteResponds(d, 200, DeletedMessage(r.collection))
        /\ UNCHANGED <<processingJobs, nextJobId, nextBookId, submitted, bucket,
                       stream, upd>>

\* DELETE /api/delete-flipbook
DeleteFlipbook ==
    Ready /\ \E bookId \in BookIds \cup {NoId} : DeleteStart(PublicCollection, bookId)
\* DELETE /api/delete-team-flipbook
DeleteTeamFlipbook ==
    Ready /\ \E bookId \in BookIds \cup {NoId} : DeleteStart(PendingCollection, bookId)
\* either delete handler past its first await
DeleteGoes ==
    /\ Ready
    /\ \E d \in Deletes :
         \/ DeleteDeleteFiles(d)
         \/ DeleteDeleteOriginal(d)
         \/ DeleteDeleteRecord(d)

\* ------------------------------------------------------------ approve-flipbook
\* variants of the transaction: one that copies and leaves the Pending record,
\* one that publishes the record without its uid
ApproveCopies(store, bookId) ==
    [store EXCEPT !["flipbooks"] =
        [x \in DOMAIN @ \cup {bookId} |->
            IF x = bookId THEN store["team-member"][bookId] ELSE @[x]]]
ApproveDropsUid(store, bookId) ==
    [store EXCEPT
       !["flipbooks"] =
          [x \in DOMAIN @ \cup {bookId} |->
              IF x = bookId
              THEN [f \in DOMAIN store["team-member"][bookId] \ {"uid"} |->
                       store["team-member"][bookId][f]]
              ELSE @[x]],
       !["team-member"] = [x \in DOMAIN @ \ {bookId} |-> @[x]]]
\* a variant of the transaction: the Pending record is deleted, nothing is set
ApproveRemoves(store, bookId) ==
    [store EXCEPT !["team-member"] = [x \in DOMAIN @ \ {bookId} |-> @[x]]]
\* the writes of the transaction: transaction.set(publicDocRef, bookData);
\* transaction.delete(teamDocRef)
ApproveWrites(store, bookId) ==
    [store EXCEPT ![PublicCollection] = Put(@, bookId, store[PendingCollection][bookId]),
                  ![PendingCollection] = Remove(@, bookId)]

\* the message of the earlier version of the handler
ApproveMissingMessageBefore == "Pending flipbook does not exist. It may have been deleted."
\* throw new Error('Pending flipbook does not exist.')
ApproveMissingMessage == "Pending flipbook does not exist."

\* POST /api/approve-flipbook: db.runTransaction commits its reads and writes
\* as one step, or rejects and writes nothing
ApproveFlipbook ==
    /\ Ready
    /\ \E bookId \in BookIds \cup {NoId} :
         IF bookId = NoId
         THEN /\ res' = Res("approve-flipbook", bookId, 400, "Flipbook ID is required.")
              /\ UNCHANGED <<db, faults>>
         ELSE \E outcome \in {"transactionFails", "ok"} :
                /\ Call(outcome # "ok")
                /\ IF outcome = "transactionFails"
                   THEN /\ res' = Res("approve-flipbook", bookId, 500, LibraryError)
                        /\ UNCHANGED db
                   ELSE IF bookId \notin DOMAIN db[PendingCollection]
                   THEN /\ res' = Res("approve-flipbook", bookId, 500,
                                      ApproveMissingMessage)
                        /\ UNCHANGED db
                   ELSE /\ db' = ApproveWrites(db, bookId)
                        /\ res' = Res("approve-flipbook", bookId, 200,
                                      "Flipbook approved and published successfully!")
    /\ UNCHANGED <<processingJobs, nextJobId, nextBookId, submitted, bucket, stream,
                   upd, del>>

\* --------------------------------------------------------------- the server
\* The requests that submit a document and convert it.
PipelineNext ==
    \/ UploadPdf
    \/ UploadTeamPdf
    \/ ProcessStream
    \/ ResponseSent
\* The requests that act on the records of the two tiers.
TierNext ==
    \/ UpdateTeamPdf
    \/ DeleteFlipbook
    \/ DeleteTeamFlipbook
    \/ DeleteGoes
    \/ ApproveFlipbook
    \/ ResponseSent
Next ==
    \/ UploadPdf
    \/ UploadTeamPdf
    \/ ProcessStream
    \/ UpdateTeamPdf
    \/ DeleteFlipbook
    \/ DeleteTeamFlipbook
    \/ DeleteGoes
    \/ ApproveFlipbook
    \/ ResponseSent
Spec == Init /\ [][Next]_vars

\* The requests that write records: the pipeline and replace.
WriterNext ==
    \/ UploadPdf
    \/ UploadTeamPdf
    \/ ProcessStream
    \/ UpdateTeamPdf
    \/ ResponseSent
WriterSpec == Init /\ [][WriterNext]_vars

\* The requests that create, rewrite or remove records and blobs: the
\* pipeline, replace and the two deletes.
StoreNext ==
    \/ UploadPdf
    \/ UploadTeamPdf
    \/ ProcessStream
    \/ UpdateTeamPdf
    \/ DeleteFlipbook
    \/ DeleteTeamFlipbook
    \/ DeleteGoes
    \/ ResponseSent
StoreSpec == Init /\ [][StoreNext]_vars

\* The requests that write a record or move one: the pipeline, replace and
\* approve.
PublishNext ==
    \/ UploadPdf
    \/ UploadTeamPdf
    \/ ProcessStream
    \/ UpdateTeamPdf
    \/ ApproveFlipbook
    \/ ResponseSent
PublishSpec == Init /\ [][PublishNext]_vars

\* The pipeline on its own.  No tier request reads processingJobs, and none
\* touches a blob or a record of a book whose run has not ended: a book id
\* enters the store at the last step of its run.
PipelineSpec == Init /\ [][PipelineNext]_vars

\* What pipeline runs that have ended leave behind: book b made from jobs[b].
PageUrls(bookId, numPages) ==
    [i \in 1..numPages |-> SignedUrl(PagePath(ImagesPath(bookId), i))]
Blobs(bookId, file) ==
    {PdfPath(bookId, file.originalname)}
      \cup {PagePath(ImagesPath(bookId), i) : i \in 1..file.numPages}
Submissions ==
    {[route |-> "upload-pdf", body |-> b] : b \in {x \in ValidBodies : x.uid = Missing}}
      \cup {[route |-> "upload-team-pdf", body |-> b] :
               b \in {x \in ValidBodies : x.uid # Missing}}
JobOf(sub) ==
    IF sub.route = "upload-pdf" THEN Job(sub.body, PublicCollection, NullUid)
    ELSE Job(sub.body, PendingCollection, sub.body.uid)
Processed(subs) ==
    LET jobs == [b \in DOMAIN subs |-> JobOf(subs[b])] IN
    /\ submitted = subs
    /\ processingJobs = <<>>
    /\ nextJobId = Len(jobs) + 1
    /\ nextBookId = Len(jobs) + 1
    /\ db = [c \in Collections |->
               [b \in {x \in DOMAIN jobs : jobs[x].targetCollection = c} |->
                   BookData(jobs[b], b, PageUrls(b, jobs[b].file.numPages))]]
    /\ bucket = UNION {Blobs(b, jobs[b].file) : b \in DOMAIN jobs}
TierInit ==
    /\ \E subs \in UNION {[1..k -> Submissions] : k \in 0..MaxBooks} : Processed(subs)
    /\ stream = [s \in Streams |-> IdleStream]
    /\ upd = [u \in Updates |-> IdleUpdate]
    /\ del = [d \in Deletes |-> IdleDelete]
    /\ res = NoRes
    /\ faults = 0
\* The tier requests, on the stores the pipeline leaves behind.
TierSpec == TierInit /\ [][TierNext]_vars

\* The page loop of one run, for documents of up to MaxLoopPages pages: the run
\* of the one job registered has saved the original and decoded the document.
LoopFiles == {[originalname |-> "a.pdf", numPages |-> n] : n \in 1..MaxLoopPages}
LoopInit ==
    \E file \in LoopFiles :
      LET sub == [route |-> "upload-pdf",
                  body |-> [SomeBody EXCEPT !.file = file, !.uid = Missing]]
          job == JobOf(sub)
      IN  /\ processingJobs = <<job>>
          /\ submitted = <<sub>>
          /\ nextJobId = 2
          /\ nextBookId = 2
          /\ db = [c \in Collections |-> <<>>]
          /\ bucket = {PdfPath(1, file.originalname)}
          /\ stream = [s \in Streams |->
                 IF s = 1
                 THEN [IdleStream EXCEPT
                         !.pc = "page", !.jobId = 1, !.job = job, !.bookId = 1,
                         !.numPages = file.numPages, !.i = 1,
                         !.events = <<LogEvent("Uploading original PDF to storage..."),
                                      LogEvent("Original PDF uploaded."),
                                      LogEvent("Converting PDF to images...")>>]
                 ELSE IdleStream]
          /\ upd = [u \in Updates |-> IdleUpdate]
          /\ del = [d \in Deletes |-> IdleDelete]
          /\ res = NoRes
          /\ faults = 0
PageLoop == Ready /\ \E s \in Streams : ProcessStreamPage(s)
Persist == Ready /\ \E s \in Streams : ProcessStreamPersist(s)
LoopNext == PageLoop \/ Persist \/ ResponseSent
LoopSpec == LoopInit /\ [][LoopNext]_vars

\* ===================================================================== claims
NotFoundEvents == <<ErrorEvent("Job not found or has expired.")>>
Running(s) == stream[s].pc # "idle"
RunningOn(s, jobId) == Running(s) /\ stream[s].jobId = jobId
ProgressOf(events) == SelectSeq(events, LAMBDA e : e.type = "progress")
EndsWithDone(r) ==
    /\ r.handler = "process-stream"
    /\ Len(r.events) > 0
    /\ r.events[Len(r.events)] = DoneEvent

\* C1, as claimed: a token's job is obtained by at most one pipeline run, so
\* no two runs are ever under way on the same token.
C1_ClaimedByOneRun ==
    \A s, t \in Streams : (s # t /\ Running(s) /\ Running(t)) => stream[s].jobId # stream[t].jobId

\* C2: a run holds exactly the job that was submitted under its token (file,
\* target tier, owner, category, subcategory); a token whose run has ended is
\* out of the registry for good, no run starts on it again, and a request for
\* it that finds no run under way is answered with the one 'Job not found'
\* event and writes nothing.
C2_HoldsSubmittedJob ==
    \A s \in Streams : Running(s) =>
        /\ stream[s].jobId \in DOMAIN submitted
        /\ LET sub == submitted[stream[s].jobId]
               job == stream[s].job
           IN  /\ job.file = sub.body.file
               /\ job.mainCategory = sub.body.mainCategory
               /\ job.subcategory = sub.body.subcategory
               /\ job.targetCollection =
                      (IF sub.route = "upload-pdf" THEN PublicCollection
                       ELSE PendingCollection)
               /\ job.uid = (IF sub.route = "upload-pdf" THEN NullUid ELSE sub.body.uid)
C2_OnceStep ==
    /\ \A s \in Streams :
          (Running(s) /\ ~Running(s)') => stream[s].jobId \notin DOMAIN processingJobs'
    /\ \A j \in DOMAIN submitted :
          j \notin DOMAIN processingJobs =>
              /\ j \notin DOMAIN processingJobs'
              /\ \A s \in Streams : RunningOn(s, j)' => RunningOn(s, j)
              /\ ( /\ res'.handler = "process-stream"
                   /\ res'.id = j
                   /\ \A s \in Streams : ~RunningOn(s, j) )
                     => /\ res'.events = NotFoundEvents
                        /\ UNCHANGED <<db, bucket, stream, processingJobs>>
\* C2: the job held is the job submitted, in every state, and a token is
\* served once, at every step
C2_SubmittedJobOnce == [](C2_HoldsSubmittedJob) /\ [][C2_OnceStep]_vars
\* a second job is registered, and a request on a token whose run has ended
\* has just been answered 'Job not found'
C2_Witness ==
    /\ res.handler = "process-stream"
    /\ res.id \in DOMAIN submitted
    /\ res.events = NotFoundEvents
    /\ DOMAIN processingJobs # {}
    /\ \E c \in Collections : db[c] # <<>>

\* C3: when the page loop of an N-page document has ended, exactly the N
\* page images page-1..page-N are stored under the book's prefix, one per
\* page; and a run that reaches Done has emitted N progress values that never
\* decrease and end at exactly 100.
C3_ProgressAndUploads ==
    /\ \A s \in Streams :
          stream[s].pc = "persist" =>
             LET r == stream[s]
                 prefix == ImagesPath(r.bookId)
             IN  /\ Len(r.uploadedUrls) = r.job.file.numPages
                 /\ Cardinality(UnderPrefix(bucket, prefix)) = r.job.file.numPages
                 /\ \A i \in 1..r.job.file.numPages : PagePath(prefix, i) \in bucket
    /\ EndsWithDone(res) =>
          LET N == submitted[res.id].body.file.numPages
              P == ProgressOf(res.events)
          IN  /\ Len(P) = N
              /\ \A i \in 1..(N - 1) : P[i].value <= P[i + 1].value
              /\ N >= 1 => P[N].value = 100
\* a run on a document of at least 200 pages has reached Done
C3_Witness ==
    /\ EndsWithDone(res)
    /\ Len(ProgressOf(res.events)) >= 200
    /\ \E b \in DOMAIN db[PublicCollection] :
          Len(db[PublicCollection][b].pageImageUrls) >= 200

\* C4, as claimed: the first progress value a run emits is above 0, whatever
\* the page count.
C4_FirstProgressPositive ==
    \A s \in Streams :
        LET P == ProgressOf(stream[s].events)
        IN  Len(P) >= 1 => P[1].value > 0
\* C4, amended: the first progress value a run emits is above 0 exactly when
\* the document has at most 200 pages; from 201 pages on it is 0.
C4_FirstProgressPositiveUpTo200 ==
    \A s \in Streams :
        LET P == ProgressOf(stream[s].events)
        IN  Len(P) >= 1 =>
              /\ stream[s].numPages <= 200 => P[1].value > 0
              /\ stream[s].numPages > 200 => P[1].value = 0
\* a run on a document of more than 200 pages has emitted its first value
C4_Witness ==
    \E s \in Streams :
        /\ stream[s].numPages > 200
        /\ Len(ProgressOf(stream[s].events)) >= 1

\* the page count of the uploaded file a record names
PagesOfNamed(name) == (CHOOSE f \in Files : f.originalname = name).numPages
Records == {<<c, b>> : c \in Collections, b \in BookIds}
Present == {cb \in Records : cb[2] \in DOMAIN db[cb[1]]}
Approved(r) == r.handler = "approve-flipbook" /\ r.status = 200
ApproveAnswered(r) == r.handler = "approve-flipbook"
Deleted(r) == r.handler \in {"delete-flipbook", "delete-team-flipbook"} /\ r.status = 200
Replaced(r) == r.handler = "update-team-pdf" /\ r.status = 200
TierOf(store, b) ==
    IF b \in DOMAIN store[PublicCollection] THEN PublicCollection
    ELSE IF b \in DOMAIN store[PendingCollection] THEN PendingCollection
    ELSE "none"

\* C5: every record in either tier, written by the pipeline or by replace,
\* lists one URL per page of the document it names, the URL of page i at
\* place i, and its thumbnailUrl is the first of them, or null (no URL) when
\* the document has no page.
C5_PageUrlsAndThumbnail ==
    \A cb \in Present :
        LET r == db[cb[1]][cb[2]]
            N == PagesOfNamed(r.pdfName)
        IN  /\ Len(r.pageImageUrls) = N
            /\ \A i \in 1..N :
                  r.pageImageUrls[i] = SignedUrl(PagePath(ImagesPath(cb[2]), i))
            /\ r.thumbnailUrl = (IF N >= 1 THEN r.pageImageUrls[1] ELSE Null)
\* replace has just written a record of a document without pages, next to a
\* record of a document of MaxPages pages
C5_Witness ==
    /\ Replaced(res)
    /\ res.id \in DOMAIN db[PendingCollection]
    /\ db[PendingCollection][res.id].pageImageUrls = <<>>
    /\ db[PendingCollection][res.id].thumbnailUrl = Null
    /\ \E cb \in Present : Len(db[cb[1]][cb[2]].pageImageUrls) = MaxPages

\* C6: the step that answers an approve with 200 found the record in Pending,
\* leaves it in Public under the same bookId with the content it had in
\* Pending, and leaves no record of that bookId in Pending.
C6_ApproveStep ==
    Approved(res') =>
        /\ res'.id \in DOMAIN db[PendingCollection]
        /\ res'.id \in DOMAIN db'[PublicCollection]
        /\ db'[PublicCollection][res'.id] = db[PendingCollection][res'.id]
        /\ res'.id \notin DOMAIN db'[PendingCollection]
\* C6: every step moves the record so when it answers an approve with 200
C6_ApproveMoves == [][C6_ApproveStep]_vars
\* an approve of a record that carries a uid has just been answered 200
C6_Witness ==
    /\ Approved(res)
    /\ res.id \in DOMAIN db[PublicCollection]
    /\ "uid" \in DOMAIN db[PublicCollection][res.id]

\* C7: the step that answers an approve with anything but 200 answers 400 or
\* 500 and changes no record and no blob; an approve of a bookId that has no
\* Pending record is answered 500, with 'Pending flipbook does not exist.'
\* unless the transaction itself failed, and that message is given for no
\* other reason.
C7_FailedApproveStep ==
    (ApproveAnswered(res') /\ ~Approved(res')) =>
        /\ res'.status \in {400, 500}
        /\ UNCHANGED <<db, bucket>>
        /\ (res'.id \in BookIds /\ res'.id \notin DOMAIN db[PendingCollection]) =>
              /\ res'.status = 500
              /\ res'.message \in {"Pending flipbook does not exist.", LibraryError}
        /\ res'.message = "Pending flipbook does not exist." =>
              res'.id \notin DOMAIN db[PendingCollection]
        /\ (res'.status = 500 /\ res'.message # LibraryError) =>
              res'.message = "Pending flipbook does not exist."
\* C7: every step that answers an approve with an error changes nothing
C7_FailedApproveChangesNothing == [][C7_FailedApproveStep]_vars
\* an approve of a bookId that is in Public, not in Pending, has just been
\* answered 500 'Pending flipbook does not exist.'
C7_Witness ==
    /\ ApproveAnswered(res)
    /\ res.status = 500
    /\ res.message = "Pending flipbook does not exist."
    /\ res.id \in DOMAIN db[PublicCollection]
    /\ bucket # {}

\* C8: no bookId has a record in both tiers; and a step after which a bookId
\* is in the other tier than before is the step that answers an approve of
\* that bookId with 200.
C8_OneTier == DOMAIN db[PublicCollection] \cap DOMAIN db[PendingCollection] = {}
C8_TierStep ==
    \A b \in BookIds :
        ( /\ TierOf(db, b) # "none"
          /\ TierOf(db', b) # "none"
          /\ TierOf(db', b) # TierOf(db, b) )
            => (Approved(res') /\ res'.id = b)
\* C8: one tier at most in every state, and only an approve changes the tier
C8_OneTierApproveOnly == [](C8_OneTier) /\ [][C8_TierStep]_vars
\* both books have a record, one of them moved to Public by an approve, while
\* a replace and a delete are under way
C8_Witness ==
    /\ Approved(res)
    /\ \A b \in BookIds : TierOf(db, b) # "none"
    /\ \E u \in Updates : upd[u].pc \notin {"idle", "done"}
    /\ \E d \in Deletes : del[d].pc \notin {"idle", "done"}

\* a replace or a delete has found the record of b (and may have begun to
\* remove its blobs)
Touched(b) ==
    \/ \E u \in Updates : upd[u].pc # "idle" /\ upd[u].bookId = b
    \/ \E d \in Deletes : del[d].pc # "idle" /\ del[d].bookId = b
\* as many page images under the record's prefix as it lists URLs, and the
\* original at the record's pdfPathInStorage
HasItsBlobs(cb) ==
    LET r == db[cb[1]][cb[2]]
    IN  /\ Cardinality(UnderPrefix(bucket, r.imageFolderPath)) = Len(r.pageImageUrls)
        /\ r.pdfPathInStorage \in bucket

\* C9, as claimed: in every state, every record of either tier has exactly as
\* many page images under its prefix as it lists URLs, and its original.
C9_EveryRecordHasItsBlobs == \A cb \in Present : HasItsBlobs(cb)
\* C9, amended: that holds of every record that no replace and no delete has
\* found yet; a replace or a delete removes blobs before it writes or
\* removes the record.
C9_UntouchedRecordHasItsBlobs ==
    \A cb \in Present : ~Touched(cb[2]) => HasItsBlobs(cb)
\* a record of MaxPages pages that no request has found has its blobs, next to
\* a record that a request has found and that has lost some
C9_Witness ==
    /\ \E cb \in Present :
          /\ ~Touched(cb[2])
          /\ Len(db[cb[1]][cb[2]].pageImageUrls) = MaxPages
          /\ HasItsBlobs(cb)
    /\ \E cb \in Present : Touched(cb[2]) /\ ~HasItsBlobs(cb)

\* C10: the cleanup step of a delete leaves no blob under the record's
\* page-image prefix; the step that deletes the original leads on to the
\* removal of the record whether or not the original was there; a delete is
\* answered 200 by the step that removes the record, after both; and when it
\* is, the record is not in that tier, and, unless a replace has found the
\* same book, no blob is left under its prefix.
DeletedFrom(r) ==
    IF r.handler = "delete-flipbook" THEN PublicCollection ELSE PendingCollection
C10_DeleteStep ==
    /\ \A d \in Deletes :
          /\ (del[d].pc = "deleteFiles" /\ del'[d].pc = "deleteOriginal") =>
                UnderPrefix(bucket', del[d].data.imageFolderPath) = {}
          /\ (del[d].pc = "deleteOriginal" /\ del'[d] # del[d]) =>
                /\ del'[d].pc = "deleteRecord"
                /\ del[d].data.pdfPathInStorage \notin bucket' \/ faults' > faults
          /\ (del[d].pc # "deleteRecord" /\ del'[d].pc = "deleteRecord") =>
                del[d].pc = "deleteOriginal"
    /\ Deleted(res') =>
          \E d \in Deletes :
              /\ del[d].pc = "deleteRecord"
              /\ del[d].bookId = res'.id
              /\ del[d].collection = DeletedFrom(res')
C10_DeleteState ==
    Deleted(res) =>
        /\ res.id \notin DOMAIN db[DeletedFrom(res)]
        /\ (\A u \in Updates : ~(upd[u].pc # "idle" /\ upd[u].bookId = res.id)) =>
              UnderPrefix(bucket, ImagesPath(res.id)) = {}
\* C10: a delete answered 200 has removed the record and the page images,
\* with or without the original there
C10_DeleteRemoves == [](C10_DeleteState) /\ [][C10_DeleteStep]_vars
\* a delete of a record of MaxPages pages that found the original gone
\* already, with no call failing, has just been answered 200
C10_Witness ==
    /\ Deleted(res)
    /\ faults = 0
    /\ \E d \in Deletes :
          del[d].pc = "done" /\ del[d].bookId = res.id /\ del[d].caught
    /\ UnderPrefix(bucket, ImagesPath(res.id)) = {}

\* the blobs stored for book b: its page images and its originals
BlobsOf(blobs, b) == {p \in blobs : p.book = b}
\* no replace has found the record of b
NoReplaceOf(b) == \A u \in Updates : ~(upd[u].pc # "idle" /\ upd[u].bookId = b)

\* C11, as claimed: when a delete has been answered 200, no blob of the record
\* is left in the bucket, neither a page image under its prefix nor its
\* original (here for a record that no replace has found, so that every blob
\* of the book is a blob of the record the delete read).
C11_DeleteLeavesNoBlob ==
    (Deleted(res) /\ NoReplaceOf(res.id)) => BlobsOf(bucket, res.id) = {}

\* the frames that end a channel, and the frames written before frame n
Terminal(e) == e.type \in {"done", "error"}
IsPrefix(a, b) == Len(a) <= Len(b) /\ SubSeq(b, 1, Len(a)) = a
StreamAnswered(r) == r.handler = "process-stream"

\* C12: a channel that is open has carried log and progress frames only; the
\* frames of a channel that has been closed (res.end()) end with one 'done' or
\* one 'error' frame and hold no other; a channel is closed by the step that
\* writes that frame, whether the job was found or not and whether the run
\* succeeded or failed, and frames once written stay as they were written.
C12_OpenOrEnded ==
    /\ \A s \in Streams : \A n \in 1..Len(stream[s].events) : ~Terminal(stream[s].events[n])
    /\ StreamAnswered(res) =>
          /\ Len(res.events) >= 1
          /\ Terminal(res.events[Len(res.events)])
          /\ \A n \in 1..(Len(res.events) - 1) : ~Terminal(res.events[n])
C12_CloseStep ==
    \A s \in Streams :
        /\ (Running(s) /\ ~Running(s)') =>
              /\ StreamAnswered(res')
              /\ res'.id = stream[s].jobId
              /\ IsPrefix(stream[s].events, res'.events)
              /\ Len(res'.events) > Len(stream[s].events)
        /\ (Running(s) /\ Running(s)') => IsPrefix(stream[s].events, stream'[s].events)
\* C12: exactly one terminal frame, the last one, on every channel
C12_OneTerminalEvent == [](C12_OpenOrEnded) /\ [][C12_CloseStep]_vars
\* a run that failed after a page had been uploaded has just closed its
\* channel, after a request for an unknown token and a run that reached 'done'
C12_Witness ==
    /\ StreamAnswered(res)
    /\ res.events[Len(res.events)].type = "error"
    /\ Len(ProgressOf(res.events)) >= 1
    /\ \E c \in Collections : db[c] # <<>>

\* The pipeline when every awaited call of a run returns or fails, and the
\* event loop then runs the continuation: the next step of a run that is under
\* way is taken, however many other requests are served in between, and a
\* response that has been written goes out.
StreamStep(s) ==
    /\ Ready
    /\ \/ ProcessStreamSaveOriginal(s)
       \/ ProcessStreamPage(s)
       \/ ProcessStreamPersist(s)
PipelineFairSpec ==
    /\ PipelineSpec
    /\ \A s \in Streams : SF_vars(StreamStep(s))
    /\ WF_vars(ResponseSent)

\* C13: a run that has obtained a job ends, in 'done' or in 'error'; and the
\* step that ends it, either way, leaves the run's token out of
\* processingJobs and closes the channel (res.end()) after the terminal frame.
C13_EndStep ==
    \A s \in Streams :
        (Running(s) /\ ~Running(s)') =>
            /\ stream[s].jobId \notin DOMAIN processingJobs'
            /\ StreamAnswered(res')
            /\ res'.id = stream[s].jobId
            /\ Terminal(res'.events[Len(res'.events)])
C13_RunEnds ==
    /\ \A s \in Streams : Running(s) ~> ~Running(s)
    /\ [][C13_EndStep]_vars
\* a run that obtained a job has ended in 'error' and its token is out of the
\* registry, while another run is under way
C13_Witness ==
    /\ StreamAnswered(res)
    /\ res.id \in DOMAIN submitted
    /\ res.events[Len(res.events)].type = "error"
    /\ res.id \notin DOMAIN processingJobs
    /\ \E s \in Streams : Running(s)

\* the requests the claim says are rejected: no file, an empty or missing
\* category or subcategory, or no uid on the route of the Pending tier
Rejected(route, body) ==
    \/ body.file = NoFile
    \/ body.mainCategory = Missing
    \/ body.subcategory = Missing
    \/ (route = "upload-team-pdf" /\ body.uid = Missing)
\* what the claim says of the answer to one upload request
SubmitOutcome(route, body) ==
    /\ UNCHANGED <<db, bucket, stream>>
    /\ IF Rejected(route, body)
       THEN /\ res'.status = 400
            /\ res'.id \notin JobIds
            /\ UNCHANGED <<processingJobs, nextJobId, submitted>>
       ELSE /\ res'.status = 200
            /\ res'.id \in JobIds
            /\ res'.id \notin DOMAIN processingJobs
            /\ res'.id \notin DOMAIN submitted
            /\ DOMAIN processingJobs' = DOMAIN processingJobs \cup {res'.id}
            /\ \A j \in DOMAIN processingJobs : processingJobs'[j] = processingJobs[j]
            /\ processingJobs'[res'.id].file = body.file
            /\ processingJobs'[res'.id].mainCategory = body.mainCategory
            /\ processingJobs'[res'.id].subcategory = body.subcategory
\* C14: an upload is answered 400, with no token and processingJobs as it was,
\* when the file is missing, the category or the subcategory is empty, or the
\* route is that of the Pending tier and the uid is absent; any other upload
\* stores exactly one new job under a token never issued before and changes
\* no entry that was there.
C14_SubmitStep ==
    \A body \in UploadBodies :
        /\ UploadPdfOf(body) => SubmitOutcome("upload-pdf", body)
        /\ UploadTeamPdfOf(body) => SubmitOutcome("upload-team-pdf", body)
C14_SubmitValidates == [][C14_SubmitStep]_vars
\* an upload to the Pending tier without a uid has just been rejected, after
\* one upload was accepted and while its job is still registered
C14_Witness ==
    /\ res.handler = "upload"
    /\ res.status = 400
    /\ res.message = "User ID (uid) is required for this operation."
    /\ DOMAIN processingJobs # {}

\* the record carries a uid field
HasUid(r) == "uid" \in DOMAIN r

\* C15, as claimed: in every state, no record of the Public tier carries a
\* uid.
C15_NoUidInPublic ==
    \A b \in DOMAIN db[PublicCollection] : ~HasUid(db[PublicCollection][b])
\* C15, amended: every record of the Pending tier carries the uid of its
\* owner; a record of the Public tier carries a uid only from the step that
\* answers an approve of it with 200, which copies the uid the Pending record
\* had; a record the pipeline writes to Public carries none, and no other
\* request adds one.
C15_PendingHasUid ==
    \A b \in DOMAIN db[PendingCollection] :
        /\ HasUid(db[PendingCollection][b])
        /\ db[PendingCollection][b].uid \in Uids
C15_UidStep ==
    \A b \in BookIds :
        (b \in DOMAIN db'[PublicCollection] /\ HasUid(db'[PublicCollection][b])) =>
            \/ /\ b \in DOMAIN db[PublicCollection]
               /\ HasUid(db[PublicCollection][b])
               /\ db'[PublicCollection][b].uid = db[PublicCollection][b].uid
            \/ /\ Approved(res')
               /\ res'.id = b
               /\ b \in DOMAIN db[PendingCollection]
               /\ db'[PublicCollection][b].uid = db[PendingCollection][b].uid
C15_UidOnlyByApprove == [](C15_PendingHasUid) /\ [][C15_UidStep]_vars
\* the Public tier holds a record that an approve moved there, with its uid,
\* next to a record the pipeline wrote there, without one
C15_Witness ==
    /\ \E b \in DOMAIN db[PublicCollection] : HasUid(db[PublicCollection][b])
    /\ \E b \in DOMAIN db[PublicCollection] : ~HasUid(db[PublicCollection][b])

\* the fields of a record that describe the stored artifacts, and the timestamp
ArtifactFields ==
    {"pdfName", "pdfPathInStorage", "imageFolderPath", "pageImageUrls",
     "thumbnailUrl", "timestamp"}

\* C16: the step that answers a replace with 200 is the update step of that
\* request; the record was in Pending under that bookId and still is, and is
\* not in Public; it has the fields it had; every field but the artifact
\* fields and the timestamp (category, subcategory, uid) is as it was just
\* before and as the request read it at its start; the artifact fields are
\* those of the new file; and no other record has changed.
C16_ReplaceStep ==
    Replaced(res') =>
        \E u \in Updates :
            /\ upd[u].pc = "update"
            /\ upd[u].bookId = res'.id
            /\ res'.id \in DOMAIN db[PendingCollection]
            /\ res'.id \in DOMAIN db'[PendingCollection]
            /\ res'.id \notin DOMAIN db'[PublicCollection]
            /\ LET old == db[PendingCollection][res'.id]
                   new == db'[PendingCollection][res'.id]
                   read == upd[u].oldData
               IN  /\ DOMAIN new = DOMAIN old
                   /\ {"mainCategory", "subcategory", "uid"} \subseteq DOMAIN old
                   /\ \A f \in DOMAIN old \ ArtifactFields :
                         new[f] = old[f] /\ new[f] = read[f]
                   /\ new.pdfName = upd[u].newFile.originalname
                   /\ new.pdfPathInStorage = PdfPath(res'.id, upd[u].newFile.originalname)
                   /\ new.imageFolderPath = ImagesPath(res'.id)
                   /\ new.pageImageUrls = upd[u].uploadedUrls
            /\ \A c \in Collections : \A b \in DOMAIN db[c] :
                  (c # PendingCollection \/ b # res'.id) =>
                      (b \in DOMAIN db'[c] /\ db'[c][b] = db[c][b])
            /\ DOMAIN db'[PublicCollection] = DOMAIN db[PublicCollection]
            /\ DOMAIN db'[PendingCollection] = DOMAIN db[PendingCollection]
C16_ReplaceKeepsOwner == [][C16_ReplaceStep]_vars
\* a replace by a document of MaxPages pages has just been answered 200, and
\* the record carries its uid and its category
C16_Witness ==
    /\ Replaced(res)
    /\ res.id \in DOMAIN db[PendingCollection]
    /\ Len(db[PendingCollection][res.id].pageImageUrls) = MaxPages
    /\ HasUid(db[PendingCollection][res.id])
    /\ db[PendingCollection][res.id].mainCategory = "Sports"

\* one replace request and one delete request, up to the read of the record
UpdateTeamPdfOf(bookId, body) == Ready /\ UpdateTeamPdfStart(bookId, body)
DeleteOf(collection, bookId) == Ready /\ DeleteStart(collection, bookId)
\* the read of the record did not fail
ReadAnswered == faults' = faults

\* C17: a replace of a bookId that has no record in Pending, and a delete of
\* a bookId that has no record in the tier it names, whether or not the other
\* tier has one, is never answered 200 and changes no record and no blob; when
\* the request is well-formed and the read of the record does not fail, it is
\* answered 404 with the handler's not-found message; and 404 is the answer to
\* no request whose record is there.
C17_MissingRecordStep ==
    /\ \A bookId \in BookIds : \A body \in UpdateBodies :
          UpdateTeamPdfOf(bookId, body) =>
             /\ bookId \notin DOMAIN db[PendingCollection] =>
                   /\ UNCHANGED <<db, bucket, upd, del>>
                   /\ res'.handler = "update-team-pdf"
                   /\ res'.id = bookId
                   /\ res'.status \in {400, 404, 500}
                   /\ (body.uid # Missing /\ body.newFile # NoFile /\ ReadAnswered) =>
                         /\ res'.status = 404
                         /\ res'.message = "Flipbook to update not found."
             /\ res'.status = 404 => bookId \notin DOMAIN db[PendingCollection]
    /\ \A collection \in Collections : \A bookId \in BookIds :
          DeleteOf(collection, bookId) =>
             /\ bookId \notin DOMAIN db[collection] =>
                   /\ UNCHANGED <<db, bucket, upd, del>>
                   /\ res'.handler = DeleteHandler(collection)
                   /\ res'.id = bookId
                   /\ res'.status \in {404, 500}
                   /\ ReadAnswered =>
                         /\ res'.status = 404
                         /\ res'.message = NotFoundMessage(collection)
             /\ res'.status = 404 => bookId \notin DOMAIN db[collection]
C17_MissingRecordIsNotFound == [][C17_MissingRecordStep]_vars
\* a replace of a bookId whose record is in Public, not in Pending, has just
\* been answered 404, with the blobs of the record in the bucket
C17_Witness ==
    /\ res.handler = "update-team-pdf"
    /\ res.status = 404
    /\ res.id \in DOMAIN db[PublicCollection]
    /\ BlobsOf(bucket, res.id) # {}

\* the tiers that hold a record of b
TiersOf(store, b) == {c \in Collections : b \in DOMAIN store[c]}

\* C18: the two collections, as a read is served from them, never hold a
\* record of one bookId in both tiers; a step that starts with the record in
\* Pending ends with it in exactly one tier, unless it is the step of a delete
\* of that bookId that removes the record; and the step that answers an
\* approve with 200 takes the record from Pending only to Public only, with no
\* state in between.
C18_NeverInBoth == \A b \in BookIds : TiersOf(db, b) # Collections
C18_ApproveStep ==
    \A b \in BookIds :
        /\ TiersOf(db, b) = {PendingCollection} =>
              \/ TiersOf(db', b) = {PendingCollection}
              \/ /\ TiersOf(db', b) = {PublicCollection}
                 /\ Approved(res')
                 /\ res'.id = b
              \/ /\ TiersOf(db', b) = {}
                 /\ Deleted(res')
                 /\ res'.id = b
        /\ (Approved(res') /\ res'.id = b) =>
              /\ TiersOf(db, b) = {PendingCollection}
              /\ TiersOf(db', b) = {PublicCollection}
C18_ApproveIsOneStep == [](C18_NeverInBoth) /\ [][C18_ApproveStep]_vars
\* an approve has just moved a record that a replace, under way, had found in
\* Pending
C18_Witness ==
    /\ Approved(res)
    /\ TiersOf(db, res.id) = {PublicCollection}
    /\ \E u \in Updates : upd[u].pc \notin {"idle", "done"} /\ upd[u].bookId = res.id

\* the page numbers of the page images stored under a prefix
PagesUnder(blobs, prefix) == {p.page : p \in UnderPrefix(blobs, prefix)}
\* the frames of a run that reaches 'done' on a document of the given
\* progress values, in the order the handler writes them
FramesOfDone(targetCollection, progress) ==
    <<LogEvent("Uploading original PDF to storage..."),
      LogEvent("Original PDF uploaded."),
      LogEvent("Converting PDF to images...")>>
      \o progress \o AfterLoopLogs(targetCollection)
      \o <<LogEvent("Metadata saved."), DoneEvent>>

\* C19: a run that has yet to save the original has stored no blob; a run in
\* its page loop, about to render page i, has stored the original and exactly
\* the page images 1..i-1, and has written exactly i-1 progress frames; a run
\* is past the loop only with all N page images stored; no record of the
\* run's bookId is written while the run is under way; and 'done' is written
\* by the step that writes the record, after the N progress frames, as the
\* last frame.
C19_InOrder ==
    \A s \in Streams :
        Running(s) =>
            LET r == stream[s]
                k == Len(ProgressOf(r.events))
            IN  /\ \A c \in Collections : r.bookId \notin DOMAIN db[c]
                /\ r.pc = "saveOriginal" =>
                      /\ BlobsOf(bucket, r.bookId) = {}
                      /\ k = 0
                /\ r.pc \in {"page", "persist"} =>
                      /\ PdfPath(r.bookId, r.job.file.originalname) \in bucket
                      /\ k = r.i - 1
                      /\ Len(r.uploadedUrls) = k
                      /\ PagesUnder(bucket, ImagesPath(r.bookId)) = 1..k
                /\ r.pc = "page" => r.i <= r.numPages
                /\ r.pc = "persist" => k = r.numPages
C19_DoneStep ==
    /\ EndsWithDone(res') =>
          \E s \in Streams :
              /\ stream[s].pc = "persist"
              /\ stream[s].jobId = res'.id
              /\ stream[s].bookId \notin DOMAIN db[stream[s].job.targetCollection]
              /\ stream[s].bookId \in DOMAIN db'[stream[s].job.targetCollection]
              /\ res'.events = FramesOfDone(stream[s].job.targetCollection,
                                            ProgressOf(stream[s].events))
              /\ Len(ProgressOf(stream[s].events)) = stream[s].numPages
    /\ \A c \in Collections : \A b \in DOMAIN db'[c] \ DOMAIN db[c] :
          /\ EndsWithDone(res')
          /\ \E s \in Streams : stream[s].pc = "persist" /\ stream[s].bookId = b
C19_StepsInOrder == [](C19_InOrder) /\ [][C19_DoneStep]_vars
\* a run is about to render the last page of a document of MaxPages pages,
\* the pages before it uploaded, while another run has yet to save its
\* original
C19_Witness ==
    /\ \E s \in Streams :
          /\ stream[s].pc = "page"
          /\ stream[s].i = MaxPages
          /\ stream[s].i >= 2
    /\ \E s \in Streams : stream[s].pc = "saveOriginal"

\* C20: the step in which a call of a run fails (the save of the original,
\* the decoding, a page's rendering, its save, its signed URL, the write of
\* the record) ends that run: the channel is closed with the frames written
\* so far, those the step wrote before the failure, and one 'error' frame;
\* no record is written, for the run's bookId or any other; every blob stored
\* before the step is still stored; no other run is touched.  And once no run
\* holds a bookId, no step stores or removes a blob of it or writes a record
\* of it: no later step, no retry, no rollback.
C20_FailStep ==
    faults' > faults =>
        \E s \in Streams :
            /\ Running(s)
            /\ ~Running(s)'
            /\ \A t \in Streams \ {s} : stream'[t] = stream[t]
            /\ StreamAnswered(res')
            /\ res'.id = stream[s].jobId
            /\ IsPrefix(stream[s].events, res'.events)
            /\ res'.events[Len(res'.events)] = ErrorEvent(LibraryError)
            /\ \A n \in (Len(stream[s].events) + 1)..(Len(res'.events) - 1) :
                  res'.events[n].type = "log"
            /\ db' = db
            /\ TiersOf(db', stream[s].bookId) = {}
            /\ bucket \subseteq bucket'
            /\ \A b \in BookIds \ {stream[s].bookId} : BlobsOf(bucket', b) = BlobsOf(bucket, b)
C20_OverStep ==
    \A b \in BookIds :
        (\A s \in Streams : ~(Running(s) /\ stream[s].bookId = b)) =>
            /\ BlobsOf(bucket', b) = BlobsOf(bucket, b)
            /\ TiersOf(db', b) = TiersOf(db, b)
            /\ \A s \in Streams : (Running(s)' /\ stream'[s].bookId = b) => b = nextBookId
C20_FailureEndsRun == [][C20_FailStep /\ C20_OverStep]_vars
\* a run has failed after it had stored the original and a page image: the
\* blobs are in the bucket, no run holds the bookId, and no tier has a record
\* of it
C20_Witness ==
    /\ StreamAnswered(res)
    /\ res.events[Len(res.events)] = ErrorEvent(LibraryError)
    /\ faults = 1
    /\ \E b \in BookIds :
          /\ b < nextBookId
          /\ \A s \in Streams : ~(Running(s) /\ stream[s].bookId = b)
          /\ TiersOf(db, b) = {}
          /\ Cardinality(BlobsOf(bucket, b)) >= 2

\* a replace past its cleanup: saving or decoding the new file, or in its
\* page loop
PastCleanup(u) == upd[u].pc \in {"saveOriginal", "page"}

\* C21: a replace that has come through its cleanup finds no page image under
\* the record's prefix but those it has saved itself; the step in which its
\* save of the new original, the decoding, a rendering, a page save or a
\* signed URL then fails answers 500, writes no record, so that the record
\* is, where it is, as the request read it, and removes no blob: the record
\* still lists the URLs of the old page images, which are gone.
C21_AfterCleanup ==
    \A u \in Updates :
        PastCleanup(u) =>
            PagesUnder(bucket, upd[u].oldData.imageFolderPath)
                \subseteq 1..(upd[u].i - 1)
C21_FailStep ==
    \A u \in Updates :
        (PastCleanup(u) /\ faults' > faults /\ upd'[u] # upd[u]) =>
            /\ res'.handler = "update-team-pdf"
            /\ res'.id = upd[u].bookId
            /\ res'.status = 500
            /\ upd'[u].pc = "done"
            /\ db' = db
            /\ \A c \in TiersOf(db', upd[u].bookId) :
                  db'[c][upd[u].bookId] = upd[u].oldData
            /\ bucket \subseteq bucket'
            /\ PagesUnder(bucket', upd[u].oldData.imageFolderPath) \subseteq 1..upd[u].i
C21_FailedReplaceKeepsRecord == [](C21_AfterCleanup) /\ [][C21_FailStep]_vars
\* a replace has been answered 500 after its cleanup: the record is in
\* Pending and lists MaxPages URLs, and no page image is under its prefix
C21_Witness ==
    /\ res.handler = "update-team-pdf"
    /\ res.status = 500
    /\ res.id \in DOMAIN db[PendingCollection]
    /\ Len(db[PendingCollection][res.id].pageImageUrls) = MaxPages
    /\ UnderPrefix(bucket, ImagesPath(res.id)) = {}
    /\ db[PendingCollection][res.id].pdfPathInStorage \notin bucket

\* the originals stored for book b
OriginalsOf(blobs, b) == {p \in BlobsOf(blobs, b) : p.dir = "source-pdfs"}
\* no delete has found the record of b
NoDeleteOf(b) == \A d \in Deletes : ~(del[d].pc # "idle" /\ del[d].bookId = b)

\* C22, as claimed: when a replace has been answered 200, and no delete has
\* run on the same bookId, the page images under the book's prefix are exactly
\* page-1..page-N of the new file, the record lists N URLs, and the one
\* original stored for the book is that of the new file.
C22_ReplacedBlobs ==
    (Replaced(res) /\ NoDeleteOf(res.id)) =>
        /\ res.id \in DOMAIN db[PendingCollection]
        /\ LET r == db[PendingCollection][res.id]
               N == PagesOfNamed(r.pdfName)
           IN  /\ Len(r.pageImageUrls) = N
               /\ PagesUnder(bucket, ImagesPath(res.id)) = 1..N
               /\ OriginalsOf(bucket, res.id) = {PdfPath(res.id, r.pdfName)}

\* the tier an upload route targets
TierOfRoute(route) ==
    IF route = "upload-pdf" THEN PublicCollection ELSE PendingCollection

\* C23: the step that writes 'done' for a run writes one record and no
\* other: under the run's bookId, which no record and no other run has, in
\* the tier of the route the job was submitted on and not in the other; the
\* record has the category and the subcategory of the submission, names the
\* original source-pdfs/{bookId}/{file name} and the prefix
\* processed-images/{bookId}/, and carries a uid, the submitted one, exactly
\* when that tier is Pending.
C23_DoneStep ==
    EndsWithDone(res') =>
        \E s \in Streams :
            LET b == stream[s].bookId
                sub == submitted[res'.id]
                c == TierOfRoute(sub.route)
            IN  /\ stream[s].pc = "persist"
                /\ stream[s].jobId = res'.id
                /\ TiersOf(db, b) = {}
                /\ TiersOf(db', b) = {c}
                /\ \A t \in Streams \ {s} : Running(t) => stream[t].bookId # b
                /\ DOMAIN db'[c] = DOMAIN db[c] \cup {b}
                /\ \A x \in Collections : \A y \in DOMAIN db[x] : db'[x][y] = db[x][y]
                /\ \A x \in Collections \ {c} : db'[x] = db[x]
                /\ LET r == db'[c][b]
                   IN  /\ r.mainCategory = sub.body.mainCategory
                       /\ r.subcategory = sub.body.subcategory
                       /\ r.pdfName = sub.body.file.originalname
                       /\ r.pdfPathInStorage =
                             [dir |-> "source-pdfs", book |-> b,
                              file |-> sub.body.file.originalname, page |-> 0]
                       /\ r.imageFolderPath = [dir |-> "processed-images", book |-> b]
                       /\ HasUid(r) <=> (c = PendingCollection)
                       /\ HasUid(r) => r.uid = sub.body.uid
C23_DoneWritesOneRecord == [][C23_DoneStep]_vars
\* a run of a job submitted for the Pending tier has just written 'done',
\* after a run of a job submitted for the Public tier with a uid in its body
C23_Witness ==
    /\ EndsWithDone(res)
    /\ submitted[res.id].route = "upload-team-pdf"
    /\ DOMAIN db[PendingCollection] # {}
    /\ \E j \in DOMAIN submitted :
          submitted[j].route = "upload-pdf" /\ submitted[j].body.uid # Missing
    /\ \E b \in DOMAIN db[PublicCollection] : ~HasUid(db[PublicCollection][b])

\* one process-stream request, up to its first await
ProcessStreamOf(jobId) == Ready /\ ProcessStreamOpen(jobId)

\* C24: a process-stream request for a token that is not in processingJobs,
\* never issued or removed by a run that has ended, is answered with the one
\* frame 'error: Job not found or has expired.' and the end of the channel,
\* and changes nothing: no blob, no record, no entry of processingJobs, no
\* run, no bookId drawn; and a request for a token that is registered is not
\* answered so.
C24_NotFoundStep ==
    \A jobId \in JobIds :
        ProcessStreamOf(jobId) =>
            IF jobId \notin DOMAIN processingJobs
            THEN /\ res' = StreamRes(jobId, NotFoundEvents)
                 /\ Len(res'.events) = 1
                 /\ res'.events[1].type = "error"
                 /\ UNCHANGED <<processingJobs, db, bucket, stream, nextBookId,
                                nextJobId, submitted>>
            ELSE /\ res' = NoRes
                 /\ \E s \in Streams : ~Running(s) /\ RunningOn(s, jobId)'
C24_UnknownTokenNotFound == [][C24_NotFoundStep]_vars
\* a request for a token that was never issued has just been answered, while
\* a job is registered and its run, under way, has stored blobs
C24_Witness ==
    /\ StreamAnswered(res)
    /\ res.events = NotFoundEvents
    /\ res.id \notin DOMAIN submitted
    /\ DOMAIN processingJobs # {}
    /\ bucket # {}
    /\ \E s \in Streams : Running(s)

\* C25, as claimed: the record is removed by a delete only after the page
\* images under its prefix, so that, with no call failing, there is no state
\* in which a delete has just removed the record, answered 200, and a page
\* image is stored under the record's prefix.
C25_NoPagesWithoutRecord ==
    (Deleted(res) /\ faults = 0) => UnderPrefix(bucket, ImagesPath(res.id)) = {}

\* every replace and every delete that was begun has been answered
AllReturned ==
    /\ \A u \in Updates : upd[u].pc \in {"idle", "done"}
    /\ \A d \in Deletes : del[d].pc \in {"idle", "done"}

\* C26, as claimed: with no call failing, once every approve, delete and
\* replace has been answered, every record still in a tier has its N page
\* images and its original in the bucket, and a bookId that has no record has
\* no blob.
C26_SettledConsistent ==
    (faults = 0 /\ AllReturned) =>
        \A b \in BookIds :
            /\ \A c \in TiersOf(db, b) : HasItsBlobs(<<c, b>>)
            /\ TiersOf(db, b) = {} => BlobsOf(bucket, b) = {}

\* C27: from any state, a replace request with one non-empty uid can take a
\* step exactly when the request for the same bookId and the same new file
\* with any other non-empty uid can take it: the same answer, or the same
\* request begun, with the same record read; what a replace that has begun
\* holds is the bookId, the new file and the record it read, so every later
\* step of it, its answer, the blobs and the record are the same as well; and
\* the uid of the record it writes is the uid the record had.
C27_UidStep ==
    /\ \A bookId \in BookIds : \A f \in Files : \A u1, u2 \in Uids :
          UpdateTeamPdfOf(bookId, [uid |-> u1, newFile |-> f])
             <=> UpdateTeamPdfOf(bookId, [uid |-> u2, newFile |-> f])
    /\ \A u \in Updates :
          (upd[u].pc = "idle" /\ upd'[u].pc # "idle") =>
              /\ upd'[u].oldData = db[PendingCollection][upd'[u].bookId]
              /\ DOMAIN upd'[u] = DOMAIN IdleUpdate
    /\ Replaced(res') =>
          \E u \in Updates :
              /\ upd[u].bookId = res'.id
              /\ db'[PendingCollection][res'.id].uid = upd[u].oldData.uid
C27_UidDoesNotMatter == [][C27_UidStep]_vars
\* a replace of a record that carries the uid u1 has just begun: either uid
\* begins it
C27_Witness ==
    \E u \in Updates :
        /\ upd[u].pc = "deleteFiles"
        /\ upd[u].oldData.uid = "u1"
        /\ upd[u].newFile.numPages = MaxPages
        /\ Cardinality(Uids) >= 2

\* the records and the blobs of every bookId other than b are, after the
\* step, what they were before it
OthersKept(b) ==
    \A x \in BookIds \ {b} :
        /\ BlobsOf(bucket', x) = BlobsOf(bucket, x)
        /\ \A c \in Collections :
              /\ x \in DOMAIN db'[c] <=> x \in DOMAIN db[c]
              /\ x \in DOMAIN db[c] => db'[c][x] = db[c][x]
\* the bookId of the request that takes the step of a slot: the one the step
\* puts into an idle slot, or the one the slot already holds
StepBook(before, after) == IF before.pc = "idle" THEN after.bookId ELSE before.bookId

\* C28: every step of a replace of bookId, every step of a delete of bookId
\* in either tier, and every answer of any of the tier requests for bookId
\* (approve among them, which acts and answers in one step) leaves the record
\* and the blobs of every other bookId as they were: no blob of another
\* bookId is deleted by the prefix delete or by the delete of the original,
\* none is written, and no record of another bookId is written, moved or
\* removed.
C28_OtherBooksStep ==
    /\ \A u \in Updates : upd'[u] # upd[u] => OthersKept(StepBook(upd[u], upd'[u]))
    /\ \A d \in Deletes : del'[d] # del[d] => OthersKept(StepBook(del[d], del'[d]))
    /\ (res' # res /\ res' # NoRes) => OthersKept(res'.id)
C28_OtherBooksUntouched == [][C28_OtherBooksStep]_vars
\* a delete of one book has been answered 200 and has left no blob of it,
\* while the record of another book is in place with its page images and its
\* original
C28_Witness ==
    /\ Deleted(res)
    /\ BlobsOf(bucket, res.id) = {}
    /\ \E cb \in Present :
          /\ cb[2] # res.id
          /\ HasItsBlobs(cb)
          /\ Len(db[cb[1]][cb[2]].pageImageUrls) = MaxPages
====
